---- MODULE Spec2Model ----
(***************************************************************************)
(* State-machine model of spacy_span_analyzer: the SpanAnalyzer class      *)
(* (analyzer.py), the module function weighted_average, and the calls the  *)
(* command-line entry point (cli.py) makes on them.                        *)
(*                                                                         *)
(* Representation                                                          *)
(*   text        a Python str, as the sequence of its characters           *)
(*   Token       [text |-> str, i |-> index in its document]               *)
(*   Span        [label, start, end, tokens]  (end exclusive; tokens is    *)
(*               what iterating the span yields: doc[start:end])           *)
(*   Doc         [tokens |-> Seq(Token), spans |-> [layers -> Seq(Span)]]  *)
(*   dict        [keys |-> insertion-ordered key sequence, at |-> map]     *)
(*               for the dicts whose order of values() the code uses;      *)
(*               a plain function for the tables keyed by layer name       *)
(*   float       an exact rational [num, den]; math.log, gmean and         *)
(*               numpy.average are library calls kept as symbolic terms    *)
(*               over their arguments                                      *)
(*   exception   the field err of a call's outcome ("" when none)          *)
(***************************************************************************)
EXTENDS Integers, Sequences, FiniteSets

VARIABLES
    pc,        \* "load" | "ready" | "returned" | "failed" | "call" | "done"
    docs,      \* the corpus; after construction also self.docs (same list)
    p_corpus,  \* self.p_corpus
    keys,      \* self.keys
    attrs,     \* names of the attributes set on the SpanAnalyzer instance
    args,      \* arguments of a direct call of a helper (SpecDist, SpecKL)
    result     \* outcome of the last call

vars == <<pc, docs, p_corpus, keys, attrs, args, result>>

----------------------------------------------------------------------------
(* Bounds *)

MaxDocs == 2
MaxLen == 3
MaxSpans == 2
MaxWindow == 1
MaxItems == 2
MaxTokens == 2
MaxCount == 2

----------------------------------------------------------------------------
(* Python values *)

None == "<None>"
NoError == ""

EmptyDict == [keys |-> <<>>, at |-> <<>>]

Has(d, k) == k \in DOMAIN d.at

DictSet(d, k, v) ==
    IF Has(d, k)
    THEN [keys |-> d.keys, at |-> [d.at EXCEPT ![k] = v]]
    ELSE [keys |-> Append(d.keys, k),
          at |-> [x \in (DOMAIN d.at) \cup {k} |-> IF x = k THEN v ELSE d.at[x]]]

Values(d) == [i \in 1..Len(d.keys) |-> d.at[d.keys[i]]]

KeySet(d) == DOMAIN d.at

\* A Python number (int or float), as an exact rational
Rat(n, d) == [num |-> n, den |-> d]

Int0 == Rat(0, 1)
Int1 == Rat(1, 1)

RatEq(a, b) == a.num * b.den = b.num * a.den

RatAdd(a, b) == Rat(a.num * b.den + b.num * a.den, a.den * b.den)

\* a / b for b # 0
RatDiv(a, b) == Rat(a.num * b.den, a.den * b.num)

IsZero(a) == a.num = 0

RECURSIVE RatSum(_)
RatSum(s) == IF s = <<>> THEN Int0 ELSE RatAdd(s[1], RatSum(Tail(s)))

\* a lookup with defaultdict semantics: the missing key is inserted
CounterGet_Inserts(c, k) ==
    [value |-> IF Has(c, k) THEN c.at[k] ELSE Int0,
     counter |-> IF Has(c, k) THEN c ELSE DictSet(c, k, Int0)]

\* collections.Counter.__getitem__: a missing key reads as 0 and is not inserted.
\* Returns the value read and the counter after the read.
CounterGet(c, k) ==
    [value |-> IF Has(c, k) THEN c.at[k] ELSE Int0, counter |-> c]

\* counter[k] += 1
CounterInc(c, k) == DictSet(c, k, RatAdd(CounterGet(c, k).value, Int1))

----------------------------------------------------------------------------
(* Text *)

\* Characters are atoms: "bt" is the backtick, "sq" the single quote and
\* "dq" the double quote; the other characters stand for themselves.
The == <<"T", "h", "e">>
the == <<"t", "h", "e">>
Ticks == <<"bt", "bt">>
Quotes == <<"sq", "sq">>
DQuote == <<"dq">>
Mixed == <<"A", "bt", "bt", "bt", "sq", "sq">>

LowerCase == [c \in {"T", "A"} |-> IF c = "T" THEN "t" ELSE "a"]

\* str.lower
Lower(s) == [i \in 1..Len(s) |-> IF s[i] \in DOMAIN LowerCase THEN LowerCase[s[i]] ELSE s[i]]

\* str.replace(old, new) for a two-character old and a one-character new:
\* leftmost non-overlapping occurrences
RECURSIVE Replace(_, _, _)
Replace(s, old, new) ==
    IF Len(s) >= 2 /\ SubSeq(s, 1, 2) = old
    THEN <<new>> \o Replace(SubSeq(s, 3, Len(s)), old, new)
    ELSE IF s = <<>> THEN <<>>
    ELSE <<s[1]>> \o Replace(Tail(s), old, new)

_normalize_text(text) == Replace(Replace(Lower(text), Ticks, "dq"), Quotes, "dq")

----------------------------------------------------------------------------
(* SpanAnalyzer helpers *)

RECURSIVE CountTokens(_, _)
CountTokens(word_counts, tokens) ==
    IF tokens = <<>> THEN word_counts
    ELSE CountTokens(CounterInc(word_counts, _normalize_text(tokens[1].text)), Tail(tokens))

\* unigram mode counting the text as it stands, without _normalize_text
CountText_RawUnigrams(word_counts, text, unigrams) ==
    IF unigrams
    THEN CounterInc(word_counts, text.text)
    ELSE CountTokens(word_counts, text.tokens)

\* One pass of the loop over texts: a text is a Token in unigram mode and
\* otherwise something whose iteration yields its tokens (a Doc, a Span).
CountText(word_counts, text, unigrams) ==
    IF unigrams
    THEN CounterInc(word_counts, _normalize_text(text.text))
    ELSE CountTokens(word_counts, text.tokens)

RECURSIVE CountTexts(_, _, _)
CountTexts(word_counts, texts, unigrams) ==
    IF texts = <<>> THEN word_counts
    ELSE CountTexts(CountText(word_counts, texts[1], unigrams), Tail(texts), unigrams)

\* normalization by the number of distinct words instead of the total count
Normalized_ByKeys(word_counts) ==
    [err |-> NoError,
     value |-> [keys |-> word_counts.keys,
                at |-> [k \in DOMAIN word_counts.at |->
                           RatDiv(word_counts.at[k], Rat(Len(word_counts.keys), 1))]]]

\* v / total for every key: raises when there is a key and total is 0
Normalized(word_counts) ==
    LET total == RatSum(Values(word_counts))
    IN  IF word_counts.keys # <<>> /\ IsZero(total)
        THEN [err |-> "ZeroDivisionError", value |-> EmptyDict]
        ELSE [err |-> NoError,
              value |-> [keys |-> word_counts.keys,
                         at |-> [k \in DOMAIN word_counts.at |->
                                    RatDiv(word_counts.at[k], total)]]]

_get_distribution(texts, normalize, unigrams) ==
    LET word_counts == CountTexts(EmptyDict, texts, unigrams)
    IN  IF normalize THEN Normalized(word_counts)
        ELSE [err |-> NoError, value |-> word_counts]

\* p_word * math.log(p_word / q[word]): the division raises on a zero
\* denominator, math.log on a non-positive argument; the logarithm itself is
\* kept as the term [p, ratio].
KLTerm(p_word, q_word) ==
    IF IsZero(q_word) THEN [err |-> "ZeroDivisionError", term |-> <<>>]
    ELSE LET ratio == RatDiv(p_word, q_word)
         IN  IF ratio.num * ratio.den <= 0
             THEN [err |-> "ValueError", term |-> <<>>]
             ELSE [err |-> NoError, term |-> [p |-> p_word, ratio |-> ratio]]

RECURSIVE KLLoop(_, _, _, _)
KLLoop(words, p, q, total) ==
    IF words = <<>> THEN [err |-> NoError, value |-> total, q |-> q]
    ELSE LET got == CounterGet(q, words[1])
             t == KLTerm(p.at[words[1]], got.value)
         IN  IF t.err # NoError
             THEN [err |-> t.err, value |-> <<>>, q |-> got.counter]
             ELSE KLLoop(Tail(words), p, got.counter, Append(total, t.term))

\* value is the sequence of the terms summed; q is q after the call
_get_kl_divergence(p, q) == KLLoop(p.keys, p, q, <<>>)

RECURSIVE _get_all_keys(_)
_get_all_keys(ds) ==
    IF ds = <<>> THEN {} ELSE (DOMAIN ds[1].spans) \cup _get_all_keys(Tail(ds))

\* len(span)
SpanLen(span) == span.end - span.start

\* The Span object a SpanGroup of document number d yields: the stored
\* [label, start, end] together with the tokens its iteration produces.
SpanOf(doc, d, sp) ==
    [label |-> sp.label, start |-> sp.start, end |-> sp.end, doc |-> d,
     tokens |-> SubSeq(doc.tokens, sp.start + 1, sp.end)]

\* doc[idx]: a negative index counts from the end, an index out of range raises
DocGet(doc, idx) ==
    LET n == Len(doc.tokens)
    IN  IF idx >= n \/ idx < -n THEN [err |-> "IndexError", token |-> <<>>]
        ELSE [err |-> NoError,
              token |-> doc.tokens[(IF idx < 0 THEN idx + n ELSE idx) + 1]]

RECURSIVE SeqOfSet(_)
SeqOfSet(S) ==
    IF S = {} THEN <<>>
    ELSE LET x == CHOOSE y \in S : TRUE IN <<x>> \o SeqOfSet(S \ {x})

\* scipy.stats.mstats.gmean(lengths), kept as a term over its argument. It
\* raises for no list: of the empty list it is the mean of no logarithms, a
\* nan (a masked value in older releases) returned with a warning.
gmean(lengths) == [gmean_of |-> lengths]

----------------------------------------------------------------------------
(* SpanAnalyzer.frequency *)

\* frequency without the "is None" test
FrequencySpan_CountsNone(counter, span) == CounterInc(counter, span.label)

FrequencySpan(counter, span) ==
    IF span.label = None THEN counter ELSE CounterInc(counter, span.label)

RECURSIVE FrequencySpans(_, _)
FrequencySpans(counter, spans) ==
    IF spans = <<>> THEN counter
    ELSE FrequencySpans(FrequencySpan(counter, spans[1]), Tail(spans))

\* the body of "for doc in self.docs": every layer of the document gets a
\* Counter if it has none, and its spans are counted into it
FrequencyDoc(freq, doc) ==
    [k \in (DOMAIN freq) \cup (DOMAIN doc.spans) |->
        IF k \in DOMAIN doc.spans
        THEN FrequencySpans(IF k \in DOMAIN freq THEN freq[k] ELSE EmptyDict,
                            doc.spans[k])
        ELSE freq[k]]

RECURSIVE FrequencyDocs(_, _)
FrequencyDocs(freq, ds) ==
    IF ds = <<>> THEN freq ELSE FrequencyDocs(FrequencyDoc(freq, ds[1]), Tail(ds))

frequency(ds) == FrequencyDocs(<<>>, ds)

----------------------------------------------------------------------------
(* SpanAnalyzer.length *)

LengthSpan(lens, span) ==
    IF span.label = None THEN lens
    ELSE IF ~Has(lens, span.label) THEN DictSet(lens, span.label, <<>>)
    ELSE DictSet(lens, span.label, Append(lens.at[span.label], SpanLen(span)))

RECURSIVE LengthSpans(_, _)
LengthSpans(lens, spans) ==
    IF spans = <<>> THEN lens
    ELSE LengthSpans(LengthSpan(lens, spans[1]), Tail(spans))

LengthDoc(_length, doc) ==
    [k \in (DOMAIN _length) \cup (DOMAIN doc.spans) |->
        IF k \in DOMAIN doc.spans
        THEN LengthSpans(IF k \in DOMAIN _length THEN _length[k] ELSE EmptyDict,
                         doc.spans[k])
        ELSE _length[k]]

RECURSIVE LengthDocs(_, _)
LengthDocs(_length, ds) ==
    IF ds = <<>> THEN _length ELSE LengthDocs(LengthDoc(_length, ds[1]), Tail(ds))

\* the lists of lengths collected per layer and span type
LengthLists(ds) == LengthDocs(<<>>, ds)

length(ds) ==
    LET _length == LengthLists(ds)
    IN  [k \in DOMAIN _length |->
            [keys |-> _length[k].keys,
             at |-> [t \in DOMAIN _length[k].at |-> gmean(_length[k].at[t])]]]

----------------------------------------------------------------------------
(* SpanAnalyzer._get_all_spans_in_key *)

SpansInKeySpan(spans, span) ==
    IF ~Has(spans, span.label) THEN DictSet(spans, span.label, <<>>)
    ELSE DictSet(spans, span.label, Append(spans.at[span.label], span))

RECURSIVE SpansInKeySpans(_, _, _, _)
SpansInKeySpans(spans, doc, d, group) ==
    IF group = <<>> THEN spans
    ELSE SpansInKeySpans(SpansInKeySpan(spans, SpanOf(doc, d, group[1])),
                         doc, d, Tail(group))

\* doc.spans[spans_key] raises KeyError for a document without that layer
RECURSIVE SpansInKeyDocs(_, _, _, _)
SpansInKeyDocs(spans, ds, d, spans_key) ==
    IF d > Len(ds) THEN [err |-> NoError, value |-> spans]
    ELSE IF spans_key \notin DOMAIN ds[d].spans
    THEN [err |-> "KeyError", value |-> EmptyDict]
    ELSE SpansInKeyDocs(SpansInKeySpans(spans, ds[d], d, ds[d].spans[spans_key]),
                        ds, d + 1, spans_key)

_get_all_spans_in_key(ds, spans_key) == SpansInKeyDocs(EmptyDict, ds, 1, spans_key)

----------------------------------------------------------------------------
(* SpanAnalyzer._get_all_boundaries_in_key *)

\* st = [err, bounds, reads]: bounds maps a label to its "start" and "end"
\* token lists, reads is the set of <<document, index>> pairs dereferenced
BoundaryAppend(st, doc, d, label, side, idx) ==
    LET got == DocGet(doc, idx)
        reads == st.reads \cup {<<d, idx>>}
    IN  IF got.err # NoError
        THEN [err |-> got.err, bounds |-> st.bounds, reads |-> reads]
        ELSE [err |-> NoError,
              bounds |-> DictSet(st.bounds, label,
                                 [st.bounds.at[label] EXCEPT
                                     ![side] = Append(@, got.token)]),
              reads |-> reads]

\* the left boundary without the test against the document start
BoundaryStart_Unguarded(st, doc, d, span) ==
    BoundaryAppend(st, doc, d, span.label, "start", span.start - 1)

BoundaryStart(st, doc, d, span) ==
    LET span_bound_start_idx == span.start - 1
    IN  IF span_bound_start_idx >= 0
        THEN BoundaryAppend(st, doc, d, span.label, "start", span_bound_start_idx)
        ELSE st

BoundaryEnd(st, doc, d, span) ==
    LET span_bound_end_idx == span.end + 1
    IN  IF span_bound_end_idx < Len(doc.tokens)
        THEN BoundaryAppend(st, doc, d, span.label, "end", span_bound_end_idx)
        ELSE st

BoundarySpan(st, doc, d, span) ==
    IF ~Has(st.bounds, span.label)
    THEN [st EXCEPT !.bounds = DictSet(st.bounds, span.label,
                                       [start |-> <<>>, end |-> <<>>])]
    ELSE LET s1 == BoundaryStart(st, doc, d, span)
         IN  IF s1.err # NoError THEN s1 ELSE BoundaryEnd(s1, doc, d, span)

RECURSIVE BoundarySpans(_, _, _, _)
BoundarySpans(st, doc, d, group) ==
    IF group = <<>> \/ st.err # NoError THEN st
    ELSE BoundarySpans(BoundarySpan(st, doc, d, group[1]), doc, d, Tail(group))

RECURSIVE BoundaryDocs(_, _, _, _)
BoundaryDocs(st, ds, d, spans_key) ==
    IF d > Len(ds) \/ st.err # NoError THEN st
    ELSE IF spans_key \notin DOMAIN ds[d].spans
    THEN [st EXCEPT !.err = "KeyError"]
    ELSE BoundaryDocs(BoundarySpans(st, ds[d], d, ds[d].spans[spans_key]),
                      ds, d + 1, spans_key)

_get_all_boundaries_in_key(ds, spans_key) ==
    BoundaryDocs([err |-> NoError, bounds |-> EmptyDict, reads |-> {}],
                 ds, 1, spans_key)

----------------------------------------------------------------------------
(* SpanAnalyzer.span_distinctiveness and boundary_distinctiveness *)

\* "Compute value for each spans_key": the divergence of every distribution
\* of one layer from q, in the order of the layer's dict
RECURSIVE KLTypes(_, _, _, _)
KLTypes(types, freq_per_type, q, acc) ==
    IF types = <<>> THEN [err |-> NoError, value |-> acc, q |-> q]
    ELSE LET r == _get_kl_divergence(freq_per_type.at[types[1]], q)
         IN  IF r.err # NoError
             THEN [err |-> r.err, value |-> EmptyDict, q |-> r.q]
             ELSE KLTypes(Tail(types), freq_per_type, r.q,
                          DictSet(acc, types[1], r.value))

RECURSIVE KLLayers(_, _, _, _)
KLLayers(layers, p_table, q, acc) ==
    IF layers = <<>> THEN [err |-> NoError, value |-> acc, q |-> q]
    ELSE LET r == KLTypes(p_table[layers[1]].keys, p_table[layers[1]], q, EmptyDict)
         IN  IF r.err # NoError
             THEN [err |-> r.err, value |-> <<>>, q |-> r.q]
             ELSE KLLayers(Tail(layers), p_table, r.q,
                           [k \in (DOMAIN acc) \cup {layers[1]} |->
                               IF k = layers[1] THEN r.value ELSE acc[k]])

\* p_span of every span type of one layer
SpanDistributions(spans_per_type) ==
    [keys |-> spans_per_type.keys,
     at |-> [t \in DOMAIN spans_per_type.at |->
                _get_distribution(spans_per_type.at[t], TRUE, FALSE).value]]

\* the table p_spans built by the first loop of span_distinctiveness
PSpans(ds, ks) ==
    LET spans_per_type == [key \in ks |-> _get_all_spans_in_key(ds, key)]
    IN  IF \E key \in ks : spans_per_type[key].err # NoError
        THEN [err |-> "KeyError", value |-> <<>>]
        ELSE [err |-> NoError,
              value |-> [key \in ks |-> SpanDistributions(spans_per_type[key].value)]]

\* besides the outcome: q, self.p_corpus after the call, and the table p_spans
span_distinctiveness(ds, ks, q) ==
    LET p_spans == PSpans(ds, ks)
        r == KLLayers(SeqOfSet(ks), p_spans.value, q, <<>>)
    IN  IF p_spans.err # NoError
        THEN [err |-> p_spans.err, value |-> <<>>, q |-> q, p_spans |-> <<>>]
        ELSE [err |-> r.err, value |-> r.value, q |-> r.q,
              p_spans |-> p_spans.value]

\* p_bound of every span type of one layer
BoundDistributions(span_boundaries_per_type) ==
    [keys |-> span_boundaries_per_type.keys,
     at |-> [t \in DOMAIN span_boundaries_per_type.at |->
                LET span_bounds == span_boundaries_per_type.at[t]
                    bounds == span_bounds.start \o span_bounds.end
                IN  _get_distribution(bounds, TRUE, TRUE).value]]

\* the table p_bounds built by the first loop of boundary_distinctiveness
PBounds(ds, ks) ==
    LET per_type == [key \in ks |-> _get_all_boundaries_in_key(ds, key)]
    IN  IF \E key \in ks : per_type[key].err # NoError
        THEN [err |-> (CHOOSE e \in {per_type[key].err : key \in ks} : e # NoError),
              value |-> <<>>]
        ELSE [err |-> NoError,
              value |-> [key \in ks |-> BoundDistributions(per_type[key].bounds)]]

\* reads: every <<document, index>> the boundary extraction dereferences;
\* bounds: what _get_all_boundaries_in_key returned, for the layers it
\* returned for
BoundaryTrace(ds, ks) ==
    LET per_type == [key \in ks |-> _get_all_boundaries_in_key(ds, key)]
    IN  [reads |-> UNION {per_type[key].reads : key \in ks},
         bounds |-> [key \in {k \in ks : per_type[k].err = NoError} |->
                        per_type[key].bounds]]

\* what _get_all_spans_in_key returned, for the layers it returned for
GroupsTable(ds, ks) ==
    LET spans_per_type == [key \in ks |-> _get_all_spans_in_key(ds, key)]
    IN  [key \in {k \in ks : spans_per_type[k].err = NoError} |->
            spans_per_type[key].value]

\* a property that leaves self.p_corpus rebuilt from the boundary tokens
boundary_distinctiveness_Overwrites(ds, ks, q) ==
    LET p_bounds == PBounds(ds, ks)
        r == KLLayers(SeqOfSet(ks), p_bounds.value, q, <<>>)
    IN  IF p_bounds.err # NoError
        THEN [err |-> p_bounds.err, value |-> <<>>, q |-> q, p_bounds |-> <<>>]
        ELSE [err |-> r.err, value |-> r.value,
              q |-> _get_distribution(<<>>, TRUE, TRUE).value,
              p_bounds |-> p_bounds.value]

\* besides the outcome: q, self.p_corpus after the call, and the table p_bounds
boundary_distinctiveness(ds, ks, q) ==
    LET p_bounds == PBounds(ds, ks)
        r == KLLayers(SeqOfSet(ks), p_bounds.value, q, <<>>)
    IN  IF p_bounds.err # NoError
        THEN [err |-> p_bounds.err, value |-> <<>>, q |-> q, p_bounds |-> <<>>]
        ELSE [err |-> r.err, value |-> r.value, q |-> r.q,
              p_bounds |-> p_bounds.value]

----------------------------------------------------------------------------
(* weighted_average *)

\* numpy.average(values, weights=weights): raises when the two lists differ
\* in length or the weights sum to zero; the quotient is kept as the term
\* over the <<value, weight>> pairs it is computed from
average(values, weights) ==
    IF Len(values) # Len(weights)
    THEN [err |-> "TypeError", value |-> <<>>]
    ELSE IF IsZero(RatSum(weights))
    THEN [err |-> "ZeroDivisionError", value |-> <<>>]
    ELSE [err |-> NoError,
          value |-> [i \in 1..Len(values) |-> <<values[i], weights[i]>>]]

WeightedLayer(span_metrics, frequencies, spans_key) ==
    IF spans_key \notin DOMAIN frequencies
    THEN [err |-> "KeyError", value |-> <<>>]
    ELSE average(Values(span_metrics[spans_key]), Values(frequencies[spans_key]))

\* when several layers raise, the exception is that of whichever the loop
\* meets first
weighted_average(span_metrics, frequencies) ==
    LET per_layer == [k \in DOMAIN span_metrics |->
                         WeightedLayer(span_metrics, frequencies, k)]
        failing == {k \in DOMAIN span_metrics : per_layer[k].err # NoError}
    IN  IF failing # {}
        THEN [err |-> per_layer[CHOOSE k \in failing : TRUE].err, value |-> <<>>]
        ELSE [err |-> NoError,
              value |-> [k \in DOMAIN span_metrics |-> per_layer[k].value]]

----------------------------------------------------------------------------
(* The corpus handed to the analyzer *)

Layers == {"sc", "ner"}
Labels == {"A", "B", None}

\* the token texts of a document, in order (cyclically for longer documents)
Sentence == <<The, Ticks, the, Quotes, DQuote, Mixed>>

NewDoc(n) ==
    [tokens |-> [i \in 1..n |->
                    [text |-> Sentence[((i - 1) % Len(Sentence)) + 1], i |-> i - 1]],
     spans |-> <<>>]

RECURSIVE SumLens(_, _)
SumLens(spans, ks) ==
    IF ks = <<>> THEN 0 ELSE Len(spans[ks[1]]) + SumLens(spans, Tail(ks))

RECURSIVE CountSpans(_)
CountSpans(ds) ==
    IF ds = <<>> THEN 0
    ELSE LET S == DOMAIN ds[1].spans
         IN  SumLens(ds[1].spans, SeqOfSet(S)) + CountSpans(Tail(ds))

NoResult == [op |-> "", err |-> NoError, value |-> <<>>, aux |-> <<>>]

Init ==
    /\ pc = "load"
    /\ docs = <<>>
    /\ p_corpus = EmptyDict
    /\ keys = {}
    /\ attrs = {}
    /\ args = <<>>
    /\ result = NoResult

\* docs.append(doc): a tokenized document without span layers yet
AddDoc ==
    /\ pc = "load"
    /\ Len(docs) < MaxDocs
    /\ \E n \in 1..MaxLen : docs' = Append(docs, NewDoc(n))
    /\ UNCHANGED <<pc, p_corpus, keys, attrs, args, result>>

\* doc.spans[spans_key] = [] on the document being built
AddLayer ==
    /\ pc = "load"
    /\ docs # <<>>
    /\ \E k \in Layers \ DOMAIN docs[Len(docs)].spans :
          docs' = [docs EXCEPT ![Len(docs)].spans =
                      [x \in (DOMAIN @) \cup {k} |-> IF x = k THEN <<>> ELSE @[x]]]
    /\ UNCHANGED <<pc, p_corpus, keys, attrs, args, result>>

\* spans.append(span) with 0 <= start < end <= len(doc)
AddSpan ==
    /\ pc = "load"
    /\ docs # <<>>
    /\ CountSpans(docs) < MaxSpans
    /\ \E k \in DOMAIN docs[Len(docs)].spans, label \in Labels,
          start \in 0..MaxLen, end \in 0..MaxLen :
          /\ start < end
          /\ end <= Len(docs[Len(docs)].tokens)
          /\ docs' = [docs EXCEPT ![Len(docs)].spans[k] =
                         Append(@, [label |-> label, start |-> start, end |-> end])]
    /\ UNCHANGED <<pc, p_corpus, keys, attrs, args, result>>

\* the parameters of SpanAnalyzer.__init__ besides self
InitParams == {"docs"}

\* SpanAnalyzer(docs, **kwargs): an unexpected keyword argument raises
\* TypeError before the body runs
Construct ==
    /\ pc = "load"
    /\ \E kwargs \in {<<>>} \cup {[window_size |-> w] : w \in 1..MaxWindow} :
          IF (DOMAIN kwargs) \subseteq InitParams
          THEN /\ p_corpus' = _get_distribution(docs, TRUE, FALSE).value
               /\ keys' = _get_all_keys(docs)
               /\ attrs' = {"docs", "p_corpus", "keys"}
               /\ pc' = "returned"
               /\ result' = [op |-> "__init__", err |-> NoError,
                             value |-> <<>>, aux |-> kwargs]
          ELSE /\ pc' = "failed"
               /\ result' = [op |-> "__init__", err |-> "TypeError",
                             value |-> <<>>, aux |-> kwargs]
               /\ UNCHANGED <<p_corpus, keys, attrs>>
    /\ UNCHANGED <<docs, args>>

AccessFrequency ==
    /\ pc = "ready"
    /\ result' = [op |-> "frequency", err |-> NoError,
                  value |-> frequency(docs), aux |-> <<>>]
    /\ pc' = "returned"
    /\ UNCHANGED <<docs, p_corpus, keys, attrs, args>>

AccessLength ==
    /\ pc = "ready"
    /\ result' = [op |-> "length", err |-> NoError,
                  value |-> length(docs), aux |-> LengthLists(docs)]
    /\ pc' = "returned"
    /\ UNCHANGED <<docs, p_corpus, keys, attrs, args>>

AccessSpanDistinctiveness ==
    /\ pc = "ready"
    /\ LET r == span_distinctiveness(docs, keys, p_corpus)
       IN  /\ result' = [op |-> "span_distinctiveness", err |-> r.err,
                         value |-> r.value,
                         aux |-> [groups |-> GroupsTable(docs, keys),
                                  p_spans |-> r.p_spans]]
           /\ p_corpus' = r.q
    /\ pc' = "returned"
    /\ UNCHANGED <<docs, keys, attrs, args>>

AccessBoundaryDistinctiveness ==
    /\ pc = "ready"
    /\ LET r == boundary_distinctiveness(docs, keys, p_corpus)
       IN  /\ result' = [op |-> "boundary_distinctiveness", err |-> r.err,
                         value |-> r.value,
                         aux |-> [reads |-> BoundaryTrace(docs, keys).reads,
                                  bounds |-> BoundaryTrace(docs, keys).bounds,
                                  p_bounds |-> r.p_bounds]]
           /\ p_corpus' = r.q
    /\ pc' = "returned"
    /\ UNCHANGED <<docs, keys, attrs, args>>

\* analyzer.window_size
ReadWindowSize ==
    /\ pc = "ready"
    /\ result' = [op |-> "window_size",
                  err |-> IF "window_size" \in attrs THEN NoError
                          ELSE "AttributeError",
                  value |-> <<>>, aux |-> <<>>]
    /\ pc' = "returned"
    /\ UNCHANGED <<docs, p_corpus, keys, attrs, args>>

MetricOps == {"length", "span_distinctiveness", "boundary_distinctiveness"}

\* msg_template(data=<metric table>, frequencies=analyzer.frequency):
\* "if frequencies:" holds for a non-empty dict
WeightedAverage ==
    /\ pc = "returned"
    /\ result.op \in MetricOps
    /\ result.err = NoError
    /\ LET frequencies == frequency(docs)
       IN  /\ DOMAIN frequencies # {}
           /\ LET r == weighted_average(result.value, frequencies)
              IN  result' = [op |-> "weighted_average", err |-> r.err,
                             value |-> r.value,
                             aux |-> [metric |-> result.op, data |-> result.value]]
    /\ UNCHANGED <<pc, docs, p_corpus, keys, attrs, args>>

\* the caller is done with the value returned and goes on
Continue ==
    /\ pc = "returned"
    /\ pc' = "ready"
    /\ result' = NoResult
    /\ UNCHANGED <<docs, p_corpus, keys, attrs, args>>

Next ==
    \/ AddDoc
    \/ AddLayer
    \/ AddSpan
    \/ Construct
    \/ AccessFrequency
    \/ AccessLength
    \/ AccessSpanDistinctiveness
    \/ AccessBoundaryDistinctiveness
    \/ ReadWindowSize
    \/ WeightedAverage
    \/ Continue

Spec == Init /\ [][Next]_vars

----------------------------------------------------------------------------
(* Direct calls of _get_distribution *)

Vocabulary == {The, Ticks, Quotes}

TokensOver(n) ==
    {[j \in 1..n |-> [text |-> f[j], i |-> j - 1]] : f \in [1..n -> Vocabulary]}

\* token-bearing items: anything iterable over its tokens
Containers == {[tokens |-> ts] : ts \in UNION {TokensOver(n) : n \in 0..MaxTokens}}

DistArgs ==
    UNION {[unigrams : {FALSE}, texts : [1..n -> Containers]] : n \in 0..MaxItems}
    \cup UNION {[unigrams : {TRUE}, texts : TokensOver(n)] : n \in 0..MaxItems}

InitDist ==
    /\ pc = "call"
    /\ docs = <<>>
    /\ p_corpus = EmptyDict
    /\ keys = {}
    /\ attrs = {}
    /\ args \in DistArgs
    /\ result = NoResult

CallGetDistribution ==
    /\ pc = "call"
    /\ \E normalize \in BOOLEAN :
          LET r == _get_distribution(args.texts, normalize, args.unigrams)
          IN  result' = [op |-> "_get_distribution", err |-> r.err,
                         value |-> r.value, aux |-> [normalize |-> normalize]]
    /\ pc' = "done"
    /\ UNCHANGED <<docs, p_corpus, keys, attrs, args>>

NextDist == CallGetDistribution

SpecDist == InitDist /\ [][NextDist]_vars

----------------------------------------------------------------------------
(* Direct calls of _get_kl_divergence *)

Words == {_normalize_text(t) : t \in {The, Ticks, Mixed}}

\* the unigram distributions _get_distribution(.., normalize=True) can return
\* over Words: every word present has a positive count
Distributions ==
    {Normalized([keys |-> SeqOfSet(S), at |-> [w \in S |-> Rat(c[w], 1)]]).value :
        S \in SUBSET Words, c \in [Words -> 1..MaxCount]}

InitKL ==
    /\ pc = "call"
    /\ docs = <<>>
    /\ p_corpus = EmptyDict
    /\ keys = {}
    /\ attrs = {}
    /\ args \in [p : Distributions, q : Distributions]
    /\ result = NoResult

CallKLDivergence ==
    /\ pc = "call"
    /\ LET r == _get_kl_divergence(args.p, args.q)
       IN  result' = [op |-> "_get_kl_divergence", err |-> r.err,
                      value |-> r.value, aux |-> [q |-> r.q]]
    /\ pc' = "done"
    /\ UNCHANGED <<docs, p_corpus, keys, attrs, args>>

NextKL == CallKLDivergence

SpecKL == InitKL /\ [][NextKL]_vars

----------------------------------------------------------------------------
(* What the properties refer to, stated over the corpus itself *)

LayersOf(ds) == {k \in Layers : \E d \in 1..Len(ds) : k \in DOMAIN ds[d].spans}

\* positions <<document, place in the layer>> of the spans of a label
SpanPlaces(ds, layer, label) ==
    {<<d, j>> \in (1..Len(ds)) \X (1..MaxSpans + 1) :
        /\ layer \in DOMAIN ds[d].spans
        /\ j <= Len(ds[d].spans[layer])
        /\ ds[d].spans[layer][j].label = label}

SpanCount(ds, layer, label) == Cardinality(SpanPlaces(ds, layer, label))

Reorderings(ds) ==
    {[i \in 1..Len(ds) |-> ds[f[i]]] :
        f \in {g \in [1..Len(ds) -> 1..Len(ds)] :
                  \A i, j \in 1..Len(ds) : g[i] = g[j] => i = j}}

\* a table as a mapping, without the order of its keys
AsMap(table) == [k \in DOMAIN table |-> table[k].at]

\* C1: frequency[layer][label] is exactly the number of spans of that
\* non-null label in that layer over all documents, a null label is counted
\* under no key, and every permutation of the documents gives the same table.
C1_FrequencyExact ==
    result.op = "frequency" =>
        /\ result.err = NoError
        /\ DOMAIN result.value = LayersOf(docs)
        /\ \A layer \in DOMAIN result.value :
              /\ None \notin KeySet(result.value[layer])
              /\ KeySet(result.value[layer]) =
                    {l \in Labels \ {None} : SpanCount(docs, layer, l) > 0}
              /\ \A label \in Labels \ {None} :
                    CounterGet(result.value[layer], label).value =
                        Rat(SpanCount(docs, layer, label), 1)
        /\ \A perm \in Reorderings(docs) :
              AsMap(frequency(perm)) = AsMap(result.value)

\* a label counted twice, once in each of two documents
C1_Witness ==
    /\ result.op = "frequency"
    /\ Len(docs) = 2
    /\ \E layer \in DOMAIN result.value, label \in Labels \ {None} :
          /\ SpanPlaces(docs, layer, label) = {<<1, 1>>, <<2, 1>>}
          /\ result.value[layer].at[label] = Rat(2, 1)

\* the spans of a label in a layer, in corpus order, as the Span objects the
\* documents yield
RECURSIVE SpansOfLabelIn(_, _, _, _)
SpansOfLabelIn(doc, d, group, label) ==
    IF group = <<>> THEN <<>>
    ELSE (IF group[1].label = label THEN <<SpanOf(doc, d, group[1])>> ELSE <<>>)
         \o SpansOfLabelIn(doc, d, Tail(group), label)

RECURSIVE SpansOfLabelFrom(_, _, _, _)
SpansOfLabelFrom(ds, d, layer, label) ==
    IF d > Len(ds) THEN <<>>
    ELSE (IF layer \in DOMAIN ds[d].spans
          THEN SpansOfLabelIn(ds[d], d, ds[d].spans[layer], label)
          ELSE <<>>)
         \o SpansOfLabelFrom(ds, d + 1, layer, label)

SpansOfLabel(ds, layer, label) == SpansOfLabelFrom(ds, 1, layer, label)

LengthsOfLabel(ds, layer, label) ==
    LET spans == SpansOfLabel(ds, layer, label)
    IN  [i \in 1..Len(spans) |-> SpanLen(spans[i])]

\* C2: length[layer][label] is the geometric mean over the token length of
\* every span of that non-null label in that layer: the list handed to the
\* geometric mean has one entry, end - start, per such span.
C2_LengthOverEverySpan ==
    result.op = "length" =>
        /\ result.err = NoError
        /\ \A layer \in LayersOf(docs), label \in Labels \ {None} :
              SpanCount(docs, layer, label) > 0 =>
                  /\ layer \in DOMAIN result.value
                  /\ Has(result.value[layer], label)
                  /\ result.value[layer].at[label] =
                        gmean(LengthsOfLabel(docs, layer, label))

\* the window size the command line uses when none is given
DefaultWindow == 1

\* the tokens of doc at the indices lo..hi that lie within the document
RECURSIVE TokensAt(_, _, _)
TokensAt(doc, lo, hi) ==
    IF lo > hi THEN <<>>
    ELSE (IF lo >= 0 /\ lo < Len(doc.tokens) THEN <<doc.tokens[lo + 1]>> ELSE <<>>)
         \o TokensAt(doc, lo + 1, hi)

\* the w tokens before start, resp. from end on, of every span of a label
RECURSIVE LeftTokens(_, _, _)
LeftTokens(ds, spans, w) ==
    IF spans = <<>> THEN <<>>
    ELSE TokensAt(ds[spans[1].doc], spans[1].start - w, spans[1].start - 1)
         \o LeftTokens(ds, Tail(spans), w)

RECURSIVE RightTokens(_, _, _)
RightTokens(ds, spans, w) ==
    IF spans = <<>> THEN <<>>
    ELSE TokensAt(ds[spans[1].doc], spans[1].end, spans[1].end + w - 1)
         \o RightTokens(ds, Tail(spans), w)

\* C3: boundary extraction with window size w collects, for each span of a
\* label in a layer, the tokens at the indices start-w .. start-1 on the left
\* and end .. end+w-1 on the right (end exclusive), clipped to the document;
\* stated for the default window size 1, the only one the code can be given.
C3_BoundaryTokens ==
    (result.op = "boundary_distinctiveness" /\ result.err = NoError) =>
        \A layer \in LayersOf(docs), label \in Labels \ {None} :
            SpanCount(docs, layer, label) > 0 =>
                /\ layer \in DOMAIN result.aux.bounds
                /\ Has(result.aux.bounds[layer], label)
                /\ result.aux.bounds[layer].at[label].start =
                      LeftTokens(docs, SpansOfLabel(docs, layer, label), DefaultWindow)
                /\ result.aux.bounds[layer].at[label].end =
                      RightTokens(docs, SpansOfLabel(docs, layer, label), DefaultWindow)

\* spans of a label in a layer that have a token before them, resp. after them
SpansWithLeft(ds, layer, label) ==
    {pl \in SpanPlaces(ds, layer, label) : ds[pl[1]].spans[layer][pl[2]].start > 0}

SpansWithRight(ds, layer, label) ==
    {pl \in SpanPlaces(ds, layer, label) :
        ds[pl[1]].spans[layer][pl[2]].end < Len(ds[pl[1]].tokens)}

\* C4: boundary extraction never reads outside a document: no index < 0 or
\* >= len(document) is dereferenced, a span with start = 0 contributes no
\* left-boundary token and a span with end = len(document) no right-boundary
\* token.
C4_NoReadOutsideDocument ==
    result.op = "boundary_distinctiveness" =>
        /\ result.err # "IndexError"
        /\ \A r \in result.aux.reads :
              r[2] >= 0 /\ r[2] < Len(docs[r[1]].tokens)
        /\ \A layer \in DOMAIN result.aux.bounds :
              \A label \in KeySet(result.aux.bounds[layer]) :
                  /\ Len(result.aux.bounds[layer].at[label].start)
                        <= Cardinality(SpansWithLeft(docs, layer, label))
                  /\ Len(result.aux.bounds[layer].at[label].end)
                        <= Cardinality(SpansWithRight(docs, layer, label))

\* the boundaries of a span covering its whole document were extracted (it is
\* not the first span of its label), and nothing was read for it
C4_Witness ==
    /\ result.op = "boundary_distinctiveness"
    /\ result.err = NoError
    /\ \E layer \in DOMAIN result.aux.bounds, label \in Labels :
          /\ SpanPlaces(docs, layer, label) = {<<1, 1>>, <<1, 2>>}
          /\ docs[1].spans[layer][2].start = 0
          /\ docs[1].spans[layer][2].end = Len(docs[1].tokens)
          /\ docs[1].spans[layer][1].start > 0
          /\ result.aux.bounds[layer].at[label] = [start |-> <<>>, end |-> <<>>]
          /\ result.aux.reads = {}

\* C5: constructing the analyzer with a corpus and a window size w >= 1
\* succeeds, as the command line's SpanAnalyzer(docs, window_size=w) does.
C5_ConstructWithWindow ==
    (result.op = "__init__" /\ "window_size" \in DOMAIN result.aux) =>
        /\ result.err = NoError
        /\ pc # "failed"
        /\ "window_size" \in attrs

\* C6: weighted_average gives, per layer, the average of the metric's values
\* in which every type's value is weighted by the frequency of that same
\* type, for a metric table and the frequency table of the same analyzer
\* (every layer of which has at least one counted span).
C6_WeightedByTypeKey ==
    (/\ result.op = "weighted_average"
     /\ \A layer \in DOMAIN result.aux.data :
           ~IsZero(RatSum(Values(frequency(docs)[layer])))) =>
        /\ result.err = NoError
        /\ DOMAIN result.value = DOMAIN result.aux.data
        /\ \A layer \in DOMAIN result.aux.data :
              LET data == result.aux.data[layer]
                  freq == frequency(docs)[layer]
              IN  /\ KeySet(data) = KeySet(freq)
                  /\ Len(result.value[layer]) = Len(data.keys)
                  /\ \A i \in 1..Len(data.keys) :
                        result.value[layer][i] =
                            <<data.at[data.keys[i]], freq.at[data.keys[i]]>>

\* C10: _get_all_spans_in_key(layer)[label] is the list of all spans of that
\* label in that layer across all documents, and P_span is the distribution
\* of the tokens inside all of them.
C10_GroupHoldsEverySpan ==
    (result.op = "span_distinctiveness" /\ result.err = NoError) =>
        \A layer \in LayersOf(docs), label \in Labels \ {None} :
            SpanCount(docs, layer, label) > 0 =>
                /\ layer \in DOMAIN result.aux.groups
                /\ Has(result.aux.groups[layer], label)
                /\ result.aux.groups[layer].at[label] = SpansOfLabel(docs, layer, label)
                /\ result.aux.p_spans[layer].at[label] =
                      _get_distribution(SpansOfLabel(docs, layer, label),
                                        TRUE, FALSE).value

----------------------------------------------------------------------------
(* Properties of the helpers called directly *)

\* places in texts of the tokens counted under a word: <<item, token>> in
\* container mode, <<item, 1>> in unigram mode
Occurrences(texts, unigrams, w) ==
    IF unigrams
    THEN {<<i, 1>> : i \in {x \in 1..Len(texts) : _normalize_text(texts[x].text) = w}}
    ELSE {<<i, j>> \in (1..Len(texts)) \X (1..MaxTokens + 1) :
             /\ j <= Len(texts[i].tokens)
             /\ _normalize_text(texts[i].tokens[j].text) = w}

NormalizedWords == {_normalize_text(t) : t \in Vocabulary}

\* C7: _get_distribution with normalize=true maps each word to its raw count
\* divided by the total of all raw counts (one count per token of each item
\* in container mode, one per item in unigram mode), so the values sum to 1
\* for a non-empty input; an empty input gives the empty map and no error.
C7_NormalizedSumsToOne ==
    (result.op = "_get_distribution" /\ result.aux.normalize) =>
        LET count == [w \in NormalizedWords |->
                         Cardinality(Occurrences(args.texts, args.unigrams, w))]
            total == RatSum([i \in 1..Len(SeqOfSet(NormalizedWords)) |->
                                Rat(count[SeqOfSet(NormalizedWords)[i]], 1)]).num
        IN  /\ result.err = NoError
            /\ KeySet(result.value) = {w \in NormalizedWords : count[w] > 0}
            /\ \A w \in KeySet(result.value) :
                  /\ result.value.at[w].den # 0
                  /\ RatEq(result.value.at[w], Rat(count[w], total))
            /\ total > 0 => RatEq(RatSum(Values(result.value)), Int1)
            /\ total = 0 => result.value = EmptyDict

\* two items, three tokens, a word counted twice and another once
C7_Witness ==
    /\ result.op = "_get_distribution"
    /\ result.aux.normalize
    /\ ~args.unigrams
    /\ Len(args.texts) = 2
    /\ Len(args.texts[1].tokens) = 2
    /\ Len(args.texts[2].tokens) = 1
    /\ \E w1, w2 \in KeySet(result.value) :
          /\ result.value.at[w1] = Rat(2, 3)
          /\ result.value.at[w2] = Rat(1, 3)

\* C8: _get_kl_divergence(P, Q) sums one term for every key of P and none
\* for the other words of Q; when a word of P is absent from Q it ends in a
\* division error; Q is the same after the call, failed or not.
C8_KLDivergence ==
    result.op = "_get_kl_divergence" =>
        /\ result.aux.q = args.q
        /\ (KeySet(args.p) \ KeySet(args.q) # {}) =>
              result.err = "ZeroDivisionError"
        /\ (KeySet(args.p) \subseteq KeySet(args.q)) =>
              /\ result.err = NoError
              /\ Len(result.value) = Len(args.p.keys)
              /\ \A i \in 1..Len(args.p.keys) :
                    /\ result.value[i].p = args.p.at[args.p.keys[i]]
                    /\ RatEq(result.value[i].ratio,
                             RatDiv(args.p.at[args.p.keys[i]],
                                    args.q.at[args.p.keys[i]]))

\* P has a word Q has and a word Q lacks, Q has a word P lacks: the call failed
C8_Witness ==
    /\ result.op = "_get_kl_divergence"
    /\ result.err = "ZeroDivisionError"
    /\ KeySet(args.p) \cap KeySet(args.q) # {}
    /\ KeySet(args.p) \ KeySet(args.q) # {}
    /\ KeySet(args.q) \ KeySet(args.p) # {}

----------------------------------------------------------------------------
(* Accesses leave the analyzer and the corpus alone *)

AccessOps == {"frequency", "length", "span_distinctiveness", "boundary_distinctiveness"}

\* what a metric returns on an analyzer just constructed over ds
Fresh(op, ds) ==
    LET q == _get_distribution(ds, TRUE, FALSE).value
        ks == _get_all_keys(ds)
        sd == span_distinctiveness(ds, ks, q)
        bd == boundary_distinctiveness(ds, ks, q)
    IN  CASE op = "frequency" -> [err |-> NoError, value |-> frequency(ds)]
          [] op = "length" -> [err |-> NoError, value |-> length(ds)]
          [] op = "span_distinctiveness" -> [err |-> sd.err, value |-> sd.value]
          [] op = "boundary_distinctiveness" -> [err |-> bd.err, value |-> bd.value]

Constructed == pc \in {"ready", "returned"}

StoredFieldsIntact ==
    Constructed =>
        /\ p_corpus = _get_distribution(docs, TRUE, FALSE).value
        /\ keys = _get_all_keys(docs)
        /\ attrs = {"docs", "p_corpus", "keys"}
        /\ result.op \in AccessOps =>
              LET fresh == Fresh(result.op, docs)
              IN  result.err = fresh.err /\ result.value = fresh.value

\* C9: after construction, accesses to the four metrics in any order leave
\* the corpus and the stored fields docs, p_corpus and keys unchanged, and
\* each access returns what the metric returns on a fresh analyzer.
C9_AccessesAreStateless ==
    /\ []StoredFieldsIntact
    /\ [][Constructed =>
             /\ docs' = docs
             /\ p_corpus' = p_corpus
             /\ keys' = keys
             /\ attrs' = attrs]_vars

\* a distinctiveness metric, which reads p_corpus and keys, was accessed on
\* a corpus of two documents with spans
C9_Witness ==
    /\ pc = "returned"
    /\ result.op = "boundary_distinctiveness"
    /\ result.err = NoError
    /\ Len(docs) = 2
    /\ CountSpans(docs) = MaxSpans
    /\ \E layer \in DOMAIN result.value :
          \E label \in KeySet(result.value[layer]) :
              result.value[layer].at[label] # <<>>

----------------------------------------------------------------------------
(* Empty inputs, vocabulary and key structure *)

\* C11: whenever the list of lengths collected for a (layer, label) is empty,
\* accessing length ends in an error instead of storing a value for it, so
\* that no entry of the table returned is a value computed from zero spans.
C11_EmptyListRejected ==
    result.op = "length" =>
        /\ (\E layer \in DOMAIN result.aux :
               \E label \in KeySet(result.aux[layer]) :
                   result.aux[layer].at[label] = <<>>) => result.err # NoError
        /\ result.err = NoError =>
               \A layer \in DOMAIN result.value :
                   \A label \in KeySet(result.value[layer]) :
                       /\ SpanCount(docs, layer, label) > 0
                       /\ result.value[layer].at[label] # gmean(<<>>)

\* the words a distribution gives positive mass
PositiveWords(dist) ==
    {w \in KeySet(dist) : dist.at[w].num * dist.at[w].den > 0}

\* C12: for every layer and label, every word with positive mass in P_span
\* and every word with positive mass in P_bound has positive mass in
\* p_corpus, the distribution built at construction, and neither
\* span_distinctiveness nor boundary_distinctiveness ends in the division
\* error of a word missing from p_corpus.
C12_VocabularyCovered ==
    /\ result.op = "span_distinctiveness" =>
          /\ result.err # "ZeroDivisionError"
          /\ \A layer \in DOMAIN result.aux.groups :
                \A label \in KeySet(result.aux.groups[layer]) :
                    PositiveWords(_get_distribution(result.aux.groups[layer].at[label],
                                                    TRUE, FALSE).value)
                        \subseteq PositiveWords(p_corpus)
          /\ result.err = NoError =>
                \A layer \in DOMAIN result.aux.p_spans :
                    \A label \in KeySet(result.aux.p_spans[layer]) :
                        PositiveWords(result.aux.p_spans[layer].at[label])
                            \subseteq PositiveWords(p_corpus)
    /\ result.op = "boundary_distinctiveness" =>
          /\ result.err # "ZeroDivisionError"
          /\ \A layer \in DOMAIN result.aux.bounds :
                \A label \in KeySet(result.aux.bounds[layer]) :
                    LET span_bounds == result.aux.bounds[layer].at[label]
                    IN  PositiveWords(_get_distribution(span_bounds.start \o span_bounds.end,
                                                        TRUE, TRUE).value)
                            \subseteq PositiveWords(p_corpus)
          /\ result.err = NoError =>
                \A layer \in DOMAIN result.aux.p_bounds :
                    \A label \in KeySet(result.aux.p_bounds[layer]) :
                        PositiveWords(result.aux.p_bounds[layer].at[label])
                            \subseteq PositiveWords(p_corpus)

\* boundary_distinctiveness returned for a label whose P_bound holds a word
\* that normalization changed (a boundary token "The" or a pair of
\* backticks), p_corpus holding more words than P_bound
C12_Witness ==
    /\ result.op = "boundary_distinctiveness"
    /\ result.err = NoError
    /\ \E layer \in DOMAIN result.aux.p_bounds :
          \E label \in KeySet(result.aux.p_bounds[layer]) :
              LET span_bounds == result.aux.bounds[layer].at[label]
                  bounds == span_bounds.start \o span_bounds.end
              IN  /\ bounds # <<>>
                  /\ \E i \in 1..Len(bounds) :
                        _normalize_text(bounds[i].text) # bounds[i].text
                  /\ PositiveWords(result.aux.p_bounds[layer].at[label]) # {}
                  /\ PositiveWords(result.aux.p_bounds[layer].at[label])
                        # PositiveWords(p_corpus)
                  /\ result.value[layer].at[label] # <<>>

\* C13: for every corpus, with documents that lack a layer other documents
\* have and with null-labelled spans, each of the four metrics completes and
\* returns a table whose layer keys are exactly analyzer.keys, the layers
\* present in any document, and whose type keys are, in every layer, the
\* type keys of frequency in that layer.
C13_SameKeyStructure ==
    result.op \in AccessOps =>
        /\ result.err = NoError
        /\ DOMAIN result.value = keys
        /\ keys = LayersOf(docs)
        /\ \A layer \in DOMAIN result.value :
              KeySet(result.value[layer]) = KeySet(frequency(docs)[layer])

====
